---- MODULE Spec2Model ----
(***************************************************************************)
(* State-machine model of the ECS library (src/ECS.h): entity allocation   *)
(* and recycling, packed per-type component arrays, signatures and the     *)
(* matching of entities to systems.  Every public function of the header   *)
(* is one action.  The header guards its argument checks with              *)
(* "#ifdef DEBUG"; the variable DEBUG fixes, for a whole behaviour,        *)
(* whether the guards are compiled in.                                     *)
(***************************************************************************)
EXTENDS Integers, Sequences, FiniteSets, TLC

(***************************************************************************)
(* Bounds.  uint32_t is scaled to Uint32Bits bits, the batch of 100 fresh  *)
(* IDs to BatchSize, the bitset width ECS_MAX_COMPONENTS (overridable with *)
(* a #define) to 2.                                                        *)
(***************************************************************************)
Uint32Bits == 2
BatchSize == 2
ECS_MAX_COMPONENTS == 2
MaxLive == 2
MaxStored == 2
MaxValue == 2
MaxUnchecked == 1

UINT32_MOD == 2 ^ Uint32Bits
UINT32_MAX == UINT32_MOD - 1

\* using Entity = uint32_t
Entity == 0 .. UINT32_MAX
\* using Signature = std::bitset<ECS_MAX_COMPONENTS>, as the set of set bits
Signature == SUBSET (0 .. ECS_MAX_COMPONENTS - 1)

\* The component types (structs Foo, Bar) and system types of the driver.
ComponentTypes == {"Foo", "Bar"}
SystemTypes == {"TestSystem"}
\* Component values and the arguments the model passes to the functions.
Values == 1 .. MaxValue
EntityArgs == 0 .. MaxLive

VARIABLES
  DEBUG,              \* whether the #ifdef DEBUG guards are compiled in
  halted,             \* the process did not survive undefined behaviour
  availableEntities,  \* std::stack<Entity>, top is the last element
  usedEntities,       \* std::set<Entity>
  entitySignatures,   \* std::unordered_map<Entity, Signature>
  entityCount,        \* uint32_t
  componentArrays,    \* type name -> ComponentArray (or null pointer)
  componentTypeToID,  \* type name -> uint16_t
  componentIDToType,  \* uint16_t -> type name
  componentCount,     \* uint16_t
  systems,            \* type name -> System
  systemSignatures,   \* type name -> Signature
  unchecked           \* calls so far that ran past a guard that is not compiled in

vars == <<DEBUG, halted, availableEntities, usedEntities, entitySignatures,
          entityCount, componentArrays, componentTypeToID, componentIDToType,
          componentCount, systems, systemSignatures, unchecked>>

\* The library's data.
ecsState == <<availableEntities, usedEntities, entitySignatures, entityCount,
              componentArrays, componentTypeToID, componentIDToType,
              componentCount, systems, systemSignatures>>

(***************************************************************************)
(* std::unordered_map: the empty map, operator[] as an lvalue (Put),       *)
(* operator[] as an rvalue, which inserts a value-initialised element when *)
(* the key is absent (Touch), and erase.                                   *)
(***************************************************************************)
EmptyMap == [k \in {} |-> 0]
Put(m, key, val) == [k \in (DOMAIN m) \cup {key} |-> IF k = key THEN val ELSE m[k]]
Touch(m, key, default) == IF key \in DOMAIN m THEN m ELSE Put(m, key, default)
Erase(m, key) == [k \in (DOMAIN m) \ {key} |-> m[k]]

(***************************************************************************)
(* template<typename T> class ComponentArray                               *)
(***************************************************************************)
NewComponentArray ==
  [componentArray |-> <<>>, entityToIndex |-> EmptyMap, indexToEntity |-> EmptyMap]

CA_HasComponent(s, entity) == entity \in DOMAIN s.entityToIndex

\* ComponentArray::AddComponent stops at its DEBUG guard
CA_AddRejected(s, entity) == DEBUG /\ CA_HasComponent(s, entity)
CA_AddUnchecked(s, entity) == ~DEBUG /\ CA_HasComponent(s, entity)

CA_AddComponent(s, entity, component) ==
  IF CA_AddRejected(s, entity) THEN s
  ELSE LET size == Len(s.componentArray) IN
       [componentArray |-> Append(s.componentArray, component),
        entityToIndex  |-> Put(s.entityToIndex, entity, size),
        indexToEntity  |-> Put(s.indexToEntity, size % UINT32_MOD, entity)]

\* ComponentArray::RemoveComponent stops at its DEBUG guard
CA_RemoveRejected(s, entity) == DEBUG /\ ~CA_HasComponent(s, entity)
CA_RemoveUnchecked(s, entity) == ~DEBUG /\ ~CA_HasComponent(s, entity)

\* back() or pop_back() on an empty vector, or a write past its end
CA_RemoveUB(s, entity) ==
  /\ ~CA_RemoveRejected(s, entity)
  /\ LET size == Len(s.componentArray)
         deletedIndex == Touch(s.entityToIndex, entity, 0)[entity]
     IN  size = 0 \/ deletedIndex >= size

\* The component array after RemoveComponent (where CA_RemoveUB is false)
CA_RemoveComponent(s, entity) ==
  IF CA_RemoveRejected(s, entity) THEN s
  ELSE LET size == Len(s.componentArray)
           eti1 == Touch(s.entityToIndex, entity, 0)
           deletedIndex == eti1[entity]
           lastKey == (size - 1) % UINT32_MOD
           ite1 == Touch(s.indexToEntity, lastKey, 0)
           lastEntity == ite1[lastKey]
           arr1 == [s.componentArray EXCEPT ![deletedIndex + 1] = s.componentArray[size]]
           eti2 == Put(eti1, lastEntity, deletedIndex)
           ite2 == Put(ite1, deletedIndex, lastEntity)
           eti3 == Erase(eti2, entity)
           ite3 == Erase(ite2, lastKey)
           arr2 == SubSeq(arr1, 1, size - 1)
       IN  [componentArray |-> arr2, entityToIndex |-> eti3, indexToEntity |-> ite3]

\* ComponentArray::GetComponent throws at its DEBUG guard
CA_GetRejected(s, entity) == DEBUG /\ ~CA_HasComponent(s, entity)
CA_GetUnchecked(s, entity) == ~DEBUG /\ ~CA_HasComponent(s, entity)

\* entityToIndex[entity] inserts index 0 for an entity without the component
CA_GetComponentStore(s, entity) ==
  IF CA_GetRejected(s, entity) THEN s
  ELSE [s EXCEPT !.entityToIndex = Touch(s.entityToIndex, entity, 0)]

\* the index read is past the end of the vector
CA_GetUB(s, entity) ==
  /\ ~CA_GetRejected(s, entity)
  /\ Touch(s.entityToIndex, entity, 0)[entity] >= Len(s.componentArray)

\* the values GetComponent can yield: the slot's value, or anything when the
\* read is out of bounds
CA_GetComponent(s, entity) ==
  IF CA_GetUB(s, entity) THEN Values
  ELSE {s.componentArray[Touch(s.entityToIndex, entity, 0)[entity] + 1]}

Init ==
  /\ DEBUG \in BOOLEAN
  /\ halted = FALSE
  /\ availableEntities = <<>>
  /\ usedEntities = {}
  /\ entitySignatures = EmptyMap
  /\ entityCount = 0
  /\ componentArrays = EmptyMap
  /\ componentTypeToID = EmptyMap
  /\ componentIDToType = EmptyMap
  /\ componentCount = 0
  /\ systems = EmptyMap
  /\ systemSignatures = EmptyMap
  /\ unchecked = 0


(***************************************************************************)
(* How a call ends.  Rejected: a DEBUG guard printed a warning and         *)
(* returned, or threw, before anything was changed.  Survives: the call  *)
(* returns to the caller.  Dies: the call ran into undefined behaviour (or *)
(* never returns) and the process is lost with all its data.  A call whose *)
(* ...UB operator holds can die; it can also return when the undefined     *)
(* behaviour is only a read (an indeterminate value) or a missing return   *)
(* statement, and cannot when it writes outside a container (...Fatal).    *)
(* What a call reports ("none", "warning" for a printed warning, "error"   *)
(* for an exception) is given by the ...Report operators, evaluated in the *)
(* state of the call.                                                      *)
(***************************************************************************)
Rejected == UNCHANGED vars
Survives == halted' = FALSE /\ UNCHANGED DEBUG
Dies ==
  /\ ~halted
  /\ halted' = TRUE
  /\ availableEntities' = <<>>
  /\ usedEntities' = {}
  /\ entitySignatures' = EmptyMap
  /\ entityCount' = 0
  /\ componentArrays' = EmptyMap
  /\ componentTypeToID' = EmptyMap
  /\ componentIDToType' = EmptyMap
  /\ componentCount' = 0
  /\ systems' = EmptyMap
  /\ systemSignatures' = EmptyMap
  /\ UNCHANGED <<DEBUG, unchecked>>
\* Bound on the calls that run past a guard left out by the build: such a
\* call (skipped holds) is made only while fewer than MaxUnchecked were.
Unchecked(skipped) ==
  /\ skipped => unchecked < MaxUnchecked
  /\ unchecked' = IF skipped THEN unchecked + 1 ELSE unchecked

(***************************************************************************)
(* SYSTEM FUNCTIONS                                                        *)
(***************************************************************************)
NewSystem == [entities |-> {}]

RegisterSystemReport(T) == IF DEBUG /\ T \in DOMAIN systems THEN "warning" ELSE "none"

\* What RegisterSystem returns: nullptr at its DEBUG guard, otherwise the
\* pointer to the instance it has just made
RegisterSystemReturns(T) == IF DEBUG /\ T \in DOMAIN systems THEN "nullptr" ELSE "new instance"

RegisterSystem(T) ==
  /\ ~halted
  /\ IF DEBUG /\ T \in DOMAIN systems
     THEN Rejected
     ELSE /\ Unchecked(~DEBUG /\ T \in DOMAIN systems)
          /\ systems' = Put(systems, T, NewSystem)
          /\ Survives
          /\ UNCHANGED <<availableEntities, usedEntities, entitySignatures, entityCount,
                         componentArrays, componentTypeToID, componentIDToType,
                         componentCount, systemSignatures>>

SetSystemSignatureReport(T) ==
  IF DEBUG /\ (T \notin DOMAIN systems \/ T \in DOMAIN systemSignatures)
  THEN "warning" ELSE "none"

\* SetSystemSignature storing a default-constructed signature instead of
\* its argument
SetSystemSignature_Default(T, signature) ==
  /\ ~halted
  /\ IF DEBUG /\ T \notin DOMAIN systems
     THEN Rejected
     ELSE IF DEBUG /\ T \in DOMAIN systemSignatures
     THEN Rejected
     ELSE /\ Unchecked(~DEBUG /\ (T \notin DOMAIN systems \/ T \in DOMAIN systemSignatures))
          /\ systemSignatures' = Put(systemSignatures, T, {})
          /\ Survives
          /\ UNCHANGED <<availableEntities, usedEntities, entitySignatures, entityCount,
                         componentArrays, componentTypeToID, componentIDToType,
                         componentCount, systems>>

SetSystemSignature(T, signature) ==
  /\ ~halted
  /\ IF DEBUG /\ T \notin DOMAIN systems
     THEN Rejected
     ELSE IF DEBUG /\ T \in DOMAIN systemSignatures
     THEN Rejected
     ELSE /\ Unchecked(~DEBUG /\ (T \notin DOMAIN systems \/ T \in DOMAIN systemSignatures))
          /\ systemSignatures' = Put(systemSignatures, T, signature)
          /\ Survives
          /\ UNCHANGED <<availableEntities, usedEntities, entitySignatures, entityCount,
                         componentArrays, componentTypeToID, componentIDToType,
                         componentCount, systems>>

\* (signature & systemSignatures[type]) == systemSignatures[type]
Matches(signature, systemSignature) == (signature \cap systemSignature) = systemSignature

\* _OnEntitySignatureChanged: entitySignatures[entity] inserts an empty
\* signature for an unknown entity
OSC_EntitySignatures(es, entity) == Touch(es, entity, {})

\* _OnEntitySignatureChanged: systemSignatures[system.first] inserts an
\* empty signature for every system that has none
OSC_SystemSignatures(sys, ss) ==
  [T \in (DOMAIN ss) \cup (DOMAIN sys) |-> IF T \in DOMAIN ss THEN ss[T] ELSE {}]

\* _OnEntitySignatureChanged: the systems after the loop
OSC_Systems(es, sys, ss, entity) ==
  LET signature == OSC_EntitySignatures(es, entity)[entity]
      ss1 == OSC_SystemSignatures(sys, ss)
  IN  [T \in DOMAIN sys |->
         IF Matches(signature, ss1[T])
         THEN [sys[T] EXCEPT !.entities = @ \cup {entity}]
         ELSE [sys[T] EXCEPT !.entities = @ \ {entity}]]

(***************************************************************************)
(* ENTITY FUNCTIONS                                                        *)
(***************************************************************************)
EntityExists(entity) == entity \in usedEntities

\* for (size_t i = entityCount + 99; i >= entityCount; i--) push(i), with
\* entityCount + 99 computed in uint32_t; the last ID pushed is on top
Batch(ec) ==
  LET start == (ec + (BatchSize - 1)) % UINT32_MOD
  IN  IF start >= ec THEN [k \in 1 .. (start - ec + 1) |-> start - (k - 1)] ELSE <<>>

\* NewEntity: entityCount after the increment, and the stack after the refill
NE_Count == (entityCount + 1) % UINT32_MOD
NE_Pool == IF Len(availableEntities) = 0 THEN <<>> \o Batch(NE_Count) ELSE availableEntities
\* the refill loop never ends: i >= 0 holds for every size_t
NE_Endless == Len(availableEntities) = 0 /\ NE_Count = 0
\* top() and pop() on an empty stack
NE_UB == ~NE_Endless /\ Len(NE_Pool) = 0

NewEntityReport == IF DEBUG /\ entityCount > UINT32_MAX THEN "error" ELSE "none"

\* NewEntity taking the oldest available ID instead of the top of the stack
NewEntityReturns_Oldest ==
  IF NewEntityReport = "error" \/ NE_Endless \/ NE_UB THEN {}
  ELSE {NE_Pool[1]}

\* The ID NewEntity returns: the top of the stack
NewEntityReturns ==
  IF NewEntityReport = "error" \/ NE_Endless \/ NE_UB THEN {}
  ELSE {NE_Pool[Len(NE_Pool)]}

\* the call runs into undefined behaviour or never returns
NewEntityUB == NewEntityReport = "none" /\ (IF NE_Endless THEN TRUE ELSE NE_UB)

NewEntityCall ==
  /\ ~halted
  /\ Cardinality(usedEntities) < MaxLive
  /\ IF DEBUG /\ entityCount > UINT32_MAX
     THEN Rejected
     ELSE \E entity \in NewEntityReturns :
          /\ entityCount' = NE_Count
          /\ availableEntities' = SubSeq(NE_Pool, 1, Len(NE_Pool) - 1)
          /\ usedEntities' = usedEntities \cup {entity}
          /\ entitySignatures' = Put(entitySignatures, entity, {})
          /\ Survives
          /\ Unchecked(FALSE)
          /\ UNCHANGED <<componentArrays, componentTypeToID, componentIDToType,
                         componentCount, systems, systemSignatures>>

NewEntity == NewEntityCall \/ (NewEntityUB /\ Dies)

\* The loop of DestroyEntity over the component IDs i .. componentCount-1:
\* the component arrays after it, whether a ComponentArray guard printed a
\* warning, and whether it ran into undefined behaviour: a bitset read at
\* or past ECS_MAX_COMPONENTS, which is taken to read 0 (ub), or a vector
\* access (fatal)
RECURSIVE DestroyLoop(_, _, _, _)
DestroyLoop(i, acc, signature, entity) ==
  IF i >= componentCount THEN acc
  ELSE IF i >= ECS_MAX_COMPONENTS
  THEN DestroyLoop(i + 1, [acc EXCEPT !.ub = TRUE], signature, entity)
  ELSE IF i \in signature
  THEN LET T == componentIDToType[i]
           s == acc.arrays[T]
       IN  IF CA_RemoveUB(s, entity) THEN [acc EXCEPT !.ub = TRUE, !.fatal = TRUE]
           ELSE DestroyLoop(i + 1,
                            [acc EXCEPT !.arrays[T] = CA_RemoveComponent(s, entity),
                                        !.warned = @ \/ CA_RemoveRejected(s, entity),
                                        !.skipped = @ \/ CA_RemoveUnchecked(s, entity)],
                            signature, entity)
  ELSE DestroyLoop(i + 1, acc, signature, entity)

DE_Loop(entity) ==
  DestroyLoop(0, [arrays |-> componentArrays, warned |-> FALSE, skipped |-> FALSE,
                  ub |-> FALSE, fatal |-> FALSE],
              Touch(entitySignatures, entity, {})[entity], entity)

DestroyEntityReport(entity) ==
  IF DEBUG /\ ~EntityExists(entity) THEN "warning"
  ELSE IF DE_Loop(entity).warned THEN "warning" ELSE "none"

DestroyEntityUB(entity) == ~(DEBUG /\ ~EntityExists(entity)) /\ DE_Loop(entity).ub

DestroyEntityFatal(entity) == ~(DEBUG /\ ~EntityExists(entity)) /\ DE_Loop(entity).fatal

DestroyEntityCall(entity) ==
  /\ ~halted
  /\ ~DestroyEntityFatal(entity)
  /\ IF DEBUG /\ ~EntityExists(entity)
     THEN Rejected
     ELSE LET es2 == Put(entitySignatures, entity, {})
          IN  /\ componentArrays' = DE_Loop(entity).arrays
              /\ systemSignatures' = OSC_SystemSignatures(systems, systemSignatures)
              /\ systems' = OSC_Systems(es2, systems, systemSignatures, entity)
              /\ entitySignatures' = Erase(OSC_EntitySignatures(es2, entity), entity)
              /\ usedEntities' = usedEntities \ {entity}
              /\ availableEntities' = Append(availableEntities, entity)
              /\ entityCount' = (entityCount - 1) % UINT32_MOD
              /\ Survives
              /\ Unchecked((~DEBUG /\ ~EntityExists(entity)) \/ DE_Loop(entity).skipped)
              /\ UNCHANGED <<componentTypeToID, componentIDToType, componentCount>>

DestroyEntity(entity) == DestroyEntityCall(entity) \/ (DestroyEntityUB(entity) /\ Dies)

(***************************************************************************)
(* COMPONENT FUNCTIONS                                                     *)
(***************************************************************************)
RegisterComponentReport(T) ==
  IF DEBUG /\ T \in DOMAIN componentArrays THEN "warning"
  ELSE IF DEBUG /\ componentCount >= ECS_MAX_COMPONENTS THEN "error"
  ELSE "none"

RegisterComponent(T) ==
  /\ ~halted
  /\ IF DEBUG /\ T \in DOMAIN componentArrays
     THEN Rejected
     ELSE IF DEBUG /\ componentCount >= ECS_MAX_COMPONENTS
     THEN Rejected
     ELSE /\ componentTypeToID' = Put(componentTypeToID, T, componentCount)
          /\ componentIDToType' = Put(componentIDToType, componentCount, T)
          /\ componentArrays' = Put(componentArrays, T, NewComponentArray)
          /\ componentCount' = componentCount + 1
          /\ Survives
          /\ Unchecked(~DEBUG /\ (T \in DOMAIN componentArrays
                                   \/ componentCount >= ECS_MAX_COMPONENTS))
          /\ UNCHANGED <<availableEntities, usedEntities, entitySignatures, entityCount,
                         systems, systemSignatures>>

\* _GetComponentArray throws at its DEBUG guard
GCA_Rejected(T) == DEBUG /\ T \notin DOMAIN componentArrays

\* componentArrays[componentType] inserts a null pointer: the type was never
\* registered and the guard is not compiled in.  The call dereferences it.
GCA_Null(T) == ~DEBUG /\ T \notin DOMAIN componentArrays

\* the guards of ecs::AddComponent, RemoveComponent and GetComponent that throw
ThrowsAtGuard(T, entity) == (DEBUG /\ ~EntityExists(entity)) \/ GCA_Rejected(T)

GetComponentReport(T, entity) ==
  IF ThrowsAtGuard(T, entity) THEN "error"
  ELSE IF GCA_Null(T) THEN "none"
  ELSE IF CA_GetRejected(componentArrays[T], entity) THEN "error" ELSE "none"

\* The values ecs::GetComponent can return
GetComponentReturns(T, entity) ==
  IF GetComponentReport(T, entity) = "error" \/ GCA_Null(T) THEN {}
  ELSE CA_GetComponent(componentArrays[T], entity)

GetComponentUB(T, entity) ==
  /\ ~ThrowsAtGuard(T, entity)
  /\ (IF GCA_Null(T) THEN TRUE ELSE CA_GetUB(componentArrays[T], entity))

\* ecs::GetComponent
GetComponentCall(T, entity) ==
  /\ ~halted
  /\ IF ThrowsAtGuard(T, entity) THEN Rejected
     ELSE IF GCA_Null(T) THEN FALSE
     ELSE IF CA_GetRejected(componentArrays[T], entity) THEN Rejected
     ELSE /\ componentArrays' =
               [componentArrays EXCEPT ![T] = CA_GetComponentStore(@, entity)]
          /\ Survives
          /\ Unchecked((~DEBUG /\ ~EntityExists(entity))
                       \/ CA_GetUnchecked(componentArrays[T], entity))
          /\ UNCHANGED <<availableEntities, usedEntities, entitySignatures, entityCount,
                         componentTypeToID, componentIDToType, componentCount,
                         systems, systemSignatures>>

GetComponent(T, entity) == GetComponentCall(T, entity) \/ (GetComponentUB(T, entity) /\ Dies)

\* GetComponentID: componentTypeToID[componentType]
GetComponentID(T) == componentTypeToID[T]

\* std::bitset::set and reset throw std::out_of_range for a position
\* >= ECS_MAX_COMPONENTS
BitOutOfRange(T) == GetComponentID(T) >= ECS_MAX_COMPONENTS

AddComponentReport(T, entity) ==
  IF ThrowsAtGuard(T, entity) THEN "error"
  ELSE IF GCA_Null(T) THEN "none"
  ELSE IF BitOutOfRange(T) THEN "error"
  ELSE IF CA_AddRejected(componentArrays[T], entity) THEN "warning" ELSE "none"

\* The function has no return statement, so flowing off its end is undefined.
AddComponentUB(T, entity) ==
  /\ ~ThrowsAtGuard(T, entity)
  /\ (IF GCA_Null(T) THEN TRUE ELSE ~BitOutOfRange(T))

\* ecs::AddComponent
AddComponentCall(T, entity, component) ==
  /\ ~halted
  /\ T \in DOMAIN componentArrays => Len(componentArrays[T].componentArray) < MaxStored
  /\ IF ThrowsAtGuard(T, entity) THEN Rejected
     ELSE IF GCA_Null(T) THEN FALSE
     ELSE LET s == componentArrays[T]
              arrays1 == [componentArrays EXCEPT ![T] = CA_AddComponent(s, entity, component)]
              es1 == Touch(entitySignatures, entity, {})
              es2 == Put(es1, entity, es1[entity] \cup {GetComponentID(T)})
          IN  IF BitOutOfRange(T)
              THEN /\ componentArrays' = arrays1
                   /\ entitySignatures' = es1
                   /\ Survives
                   /\ Unchecked((~DEBUG /\ ~EntityExists(entity)) \/ CA_AddUnchecked(s, entity))
                   /\ UNCHANGED <<availableEntities, usedEntities, entityCount,
                                  componentTypeToID, componentIDToType, componentCount,
                                  systems, systemSignatures>>
              ELSE /\ componentArrays' = arrays1
                   /\ entitySignatures' = OSC_EntitySignatures(es2, entity)
                   /\ systemSignatures' = OSC_SystemSignatures(systems, systemSignatures)
                   /\ systems' = OSC_Systems(es2, systems, systemSignatures, entity)
                   /\ Survives
                   /\ Unchecked((~DEBUG /\ ~EntityExists(entity)) \/ CA_AddUnchecked(s, entity))
                   /\ UNCHANGED <<availableEntities, usedEntities, entityCount,
                                  componentTypeToID, componentIDToType, componentCount>>

AddComponent(T, entity, component) ==
  AddComponentCall(T, entity, component) \/ (AddComponentUB(T, entity) /\ Dies)

RemoveComponentReport(T, entity) ==
  IF ThrowsAtGuard(T, entity) THEN "error"
  ELSE IF GCA_Null(T) THEN "none"
  ELSE IF BitOutOfRange(T) THEN "error"
  ELSE IF CA_RemoveRejected(componentArrays[T], entity) THEN "warning" ELSE "none"

RemoveComponentUB(T, entity) ==
  /\ ~ThrowsAtGuard(T, entity)
  /\ (IF GCA_Null(T) THEN TRUE ELSE CA_RemoveUB(componentArrays[T], entity))

\* ecs::RemoveComponent
RemoveComponentCall(T, entity) ==
  /\ ~halted
  /\ IF ThrowsAtGuard(T, entity) THEN Rejected
     ELSE IF GCA_Null(T) THEN FALSE
     ELSE IF CA_RemoveUB(componentArrays[T], entity) THEN FALSE
     ELSE LET s == componentArrays[T]
              arrays1 == [componentArrays EXCEPT ![T] = CA_RemoveComponent(s, entity)]
              es1 == Touch(entitySignatures, entity, {})
              es2 == Put(es1, entity, es1[entity] \ {GetComponentID(T)})
          IN  IF BitOutOfRange(T)
              THEN /\ componentArrays' = arrays1
                   /\ entitySignatures' = es1
                   /\ Survives
                   /\ Unchecked((~DEBUG /\ ~EntityExists(entity))
                                \/ CA_RemoveUnchecked(s, entity))
                   /\ UNCHANGED <<availableEntities, usedEntities, entityCount,
                                  componentTypeToID, componentIDToType, componentCount,
                                  systems, systemSignatures>>
              ELSE /\ componentArrays' = arrays1
                   /\ entitySignatures' = OSC_EntitySignatures(es2, entity)
                   /\ systemSignatures' = OSC_SystemSignatures(systems, systemSignatures)
                   /\ systems' = OSC_Systems(es2, systems, systemSignatures, entity)
                   /\ Survives
                   /\ Unchecked((~DEBUG /\ ~EntityExists(entity))
                                \/ CA_RemoveUnchecked(s, entity))
                   /\ UNCHANGED <<availableEntities, usedEntities, entityCount,
                                  componentTypeToID, componentIDToType, componentCount>>

RemoveComponent(T, entity) ==
  RemoveComponentCall(T, entity) \/ (RemoveComponentUB(T, entity) /\ Dies)

(***************************************************************************)
(* The order of the statements inside a call: the steps a call performs on *)
(* its way to returning, as a sequence.  "store" is a mutation of a        *)
(* component array, "signature" the update of the entity's signature,      *)
(* "systems" the call of _OnEntitySignatureChanged, "dead" the erasure of  *)
(* the entity from entitySignatures and usedEntities, "pool" the push of   *)
(* its ID.  A ComponentArray guard that returns leaves the "store" step    *)
(* out; a guard or a bitset that throws ends the sequence.                 *)
(***************************************************************************)
AddComponentSteps(T, entity) ==
  IF ThrowsAtGuard(T, entity) THEN <<>>
  ELSE IF GCA_Null(T) THEN <<>>
  ELSE (IF CA_AddRejected(componentArrays[T], entity) THEN <<>> ELSE <<"store">>)
       \o (IF BitOutOfRange(T) THEN <<>> ELSE <<"signature", "systems">>)

RemoveComponentSteps(T, entity) ==
  IF ThrowsAtGuard(T, entity) THEN <<>>
  ELSE IF GCA_Null(T) THEN <<>>
  ELSE (IF CA_RemoveRejected(componentArrays[T], entity) THEN <<>> ELSE <<"store">>)
       \o (IF BitOutOfRange(T) THEN <<>> ELSE <<"signature", "systems">>)

\* The iterations of DestroyEntity's loop that call RemoveComponent on a
\* component array and are not stopped by its guard
DE_Removals(entity) ==
  {i \in 0 .. (componentCount - 1) :
     /\ i < ECS_MAX_COMPONENTS
     /\ i \in Touch(entitySignatures, entity, {})[entity]
     /\ ~CA_RemoveRejected(componentArrays[componentIDToType[i]], entity)}

\* DestroyEntity pushing the ID before it erases the entity
DestroyEntitySteps_PoolFirst(entity) ==
  IF DEBUG /\ ~EntityExists(entity) THEN <<>>
  ELSE [k \in 1 .. Cardinality(DE_Removals(entity)) |-> "store"]
       \o <<"signature", "systems", "pool", "dead">>

DestroyEntitySteps(entity) ==
  IF DEBUG /\ ~EntityExists(entity) THEN <<>>
  ELSE [k \in 1 .. Cardinality(DE_Removals(entity)) |-> "store"]
       \o <<"signature", "systems", "dead", "pool">>

Next ==
  \/ \E T \in ComponentTypes : RegisterComponent(T)
  \/ \E T \in SystemTypes : RegisterSystem(T)
  \/ \E T \in SystemTypes, signature \in Signature : SetSystemSignature(T, signature)
  \/ NewEntity
  \/ \E entity \in EntityArgs : DestroyEntity(entity)
  \/ \E T \in ComponentTypes, entity \in EntityArgs, component \in Values :
       AddComponent(T, entity, component)
  \/ \E T \in ComponentTypes, entity \in EntityArgs : RemoveComponent(T, entity)
  \/ \E T \in ComponentTypes, entity \in EntityArgs : GetComponent(T, entity)

Spec == Init /\ [][Next]_vars

(***************************************************************************)
(* Observers used by the properties                                        *)
(***************************************************************************)
\* The required signature _OnEntitySignatureChanged reads for a system:
\* systemSignatures[type], empty when none was set
RequiredSignature(S) == IF S \in DOMAIN systemSignatures THEN systemSignatures[S] ELSE {}

\* The signature of an entity, empty when the map has no entry for it
SignatureOf(entity) ==
  IF entity \in DOMAIN entitySignatures THEN entitySignatures[entity] ELSE {}

(***************************************************************************)
(* C1  Match correctness: for every live entity e and every registered     *)
(* system S, e is in S.entities if and only if                             *)
(* (signature(e) & requiredSignature(S)) == requiredSignature(S).          *)
(***************************************************************************)
C1_MatchCorrectness ==
  \A e \in usedEntities : \A S \in DOMAIN systems :
    (e \in systems[S].entities) <=> Matches(SignatureOf(e), RequiredSignature(S))

(***************************************************************************)
(* C2  Store density: for every component type the packed array is as long *)
(* as the number of entities holding the component, entityToIndex and      *)
(* indexToEntity are inverses of each other, the indices of indexToEntity  *)
(* are exactly 0..size-1, and no two entities map to the same slot.        *)
(***************************************************************************)
Dense(s) ==
  LET size == Len(s.componentArray) IN
  /\ size = Cardinality(DOMAIN s.entityToIndex)
  /\ DOMAIN s.indexToEntity = 0 .. (size - 1)
  /\ \A e \in DOMAIN s.entityToIndex :
       /\ s.entityToIndex[e] \in DOMAIN s.indexToEntity
       /\ s.indexToEntity[s.entityToIndex[e]] = e
  /\ \A i \in DOMAIN s.indexToEntity :
       /\ s.indexToEntity[i] \in DOMAIN s.entityToIndex
       /\ s.entityToIndex[s.indexToEntity[i]] = i
  /\ \A e, f \in DOMAIN s.entityToIndex :
       s.entityToIndex[e] = s.entityToIndex[f] => e = f

C2_StoreDensity == \A T \in DOMAIN componentArrays : Dense(componentArrays[T])

(***************************************************************************)
(* C3  Recycling uniqueness: NewEntity never returns an ID that is live at *)
(* the moment of the call.                                                 *)
(***************************************************************************)
C3_RecyclingUniqueness ==
  [][NewEntityCall => \A e \in NewEntityReturns : e \notin usedEntities]_vars

(***************************************************************************)
(* C4  Signature consistency: for every entity e and every registered      *)
(* component type T, bit GetComponentID<T>() of e's signature is set if    *)
(* and only if T's component array holds an entry for e.                   *)
(***************************************************************************)
C4_SignatureConsistency ==
  \A e \in Entity : \A T \in DOMAIN componentArrays :
    (GetComponentID(T) \in SignatureOf(e)) <=> CA_HasComponent(componentArrays[T], e)

(***************************************************************************)
(* C5  Swap-remove preserves values: when RemoveComponent<T>(e) is applied *)
(* to a holder e of T, GetComponent<T>(f) of every other holder f returns  *)
(* the value it returned before, and e no longer holds T.                  *)
(***************************************************************************)
\* f holds a component in s whose read is defined and yields value
Holds(s, f, value) ==
  /\ CA_HasComponent(s, f)
  /\ ~CA_GetUB(s, f)
  /\ CA_GetComponent(s, f) = {value}

C5_SwapRemovePreservesValues ==
  [][\A T \in ComponentTypes : \A e \in EntityArgs :
       (/\ RemoveComponentCall(T, e)
        /\ T \in DOMAIN componentArrays
        /\ CA_HasComponent(componentArrays[T], e))
       => /\ ~CA_HasComponent(componentArrays'[T], e)
          /\ \A f \in (DOMAIN componentArrays[T].entityToIndex) \ {e} :
               \A value \in Values :
                 Holds(componentArrays[T], f, value) => Holds(componentArrays'[T], f, value)]_vars

(***************************************************************************)
(* C6  Destroy cleans up before recycling: after DestroyEntity(e) on a     *)
(* live entity e, whose last steps push e to the available pool, e is in   *)
(* no system's entity set, in no component array and not in the signature  *)
(* map.                                                                    *)
(***************************************************************************)
CleanedUp(e) ==
  /\ \A S \in DOMAIN systems : e \notin systems[S].entities
  /\ \A T \in DOMAIN componentArrays : ~CA_HasComponent(componentArrays[T], e)
  /\ e \notin DOMAIN entitySignatures

C6_DestroyCleansUp ==
  [][\A e \in EntityArgs :
       (DestroyEntityCall(e) /\ EntityExists(e))
       => (CleanedUp(e))' /\ availableEntities' = Append(availableEntities, e)]_vars

(***************************************************************************)
(* C7  Idempotent destroy-report: DestroyEntity(e) on an entity that is    *)
(* not live reports "not found" and leaves the whole state unchanged.      *)
(***************************************************************************)
C7_DestroyDeadIsNoOp ==
  [][\A e \in EntityArgs :
       (DestroyEntityCall(e) /\ ~EntityExists(e))
       => /\ DestroyEntityReport(e) = "warning"
          /\ UNCHANGED <<availableEntities, usedEntities, entityCount, entitySignatures,
                         componentArrays, systems>>]_vars

(***************************************************************************)
(* C8  Redundant component mutation is a no-op: AddComponent<T>(e, v) on a *)
(* live entity that holds T, and RemoveComponent<T>(e) on a live entity    *)
(* that does not hold T, are reported and leave the component arrays, the  *)
(* signatures and the system sets unchanged.                               *)
(***************************************************************************)
C8_RedundantMutationIsNoOp ==
  [][\A T \in ComponentTypes : \A e \in EntityArgs :
       /\ (/\ \E v \in Values : AddComponentCall(T, e, v)
           /\ EntityExists(e)
           /\ T \in DOMAIN componentArrays
           /\ CA_HasComponent(componentArrays[T], e))
          => /\ AddComponentReport(T, e) = "warning"
             /\ UNCHANGED <<componentArrays, entitySignatures, systems>>
       /\ (/\ RemoveComponentCall(T, e)
           /\ EntityExists(e)
           /\ T \in DOMAIN componentArrays
           /\ ~CA_HasComponent(componentArrays[T], e))
          => /\ RemoveComponentReport(T, e) = "warning"
             /\ UNCHANGED <<componentArrays, entitySignatures, systems>>]_vars

(***************************************************************************)
(* C9  Operations on a non-live entity do not corrupt state: AddComponent, *)
(* RemoveComponent and GetComponent called with an entity that is not live *)
(* surface an error and change nothing.                                    *)
(***************************************************************************)
C9_NonLiveEntityIsRejected ==
  [][\A T \in ComponentTypes : \A e \in EntityArgs :
       ~EntityExists(e) =>
         /\ (\E v \in Values : AddComponentCall(T, e, v))
            => /\ AddComponentReport(T, e) = "error"
               /\ UNCHANGED <<entitySignatures, componentArrays, systems>>
         /\ RemoveComponentCall(T, e)
            => /\ RemoveComponentReport(T, e) = "error"
               /\ UNCHANGED <<entitySignatures, componentArrays, systems>>
         /\ GetComponentCall(T, e)
            => /\ GetComponentReport(T, e) = "error"
               /\ UNCHANGED <<entitySignatures, componentArrays, systems>>]_vars

(***************************************************************************)
(* C10  NewEntity postcondition: every NewEntity call that returns yields  *)
(* an ID different from 0 that is live afterwards with an empty signature; *)
(* 0 is never in the available pool and never live.                        *)
(***************************************************************************)
InPool(e) == \E k \in 1 .. Len(availableEntities) : availableEntities[k] = e

C10_NewEntityPostcondition ==
  /\ [](~InPool(0) /\ 0 \notin usedEntities)
  /\ [][NewEntityCall =>
          \A e \in NewEntityReturns :
            e \in usedEntities' =>
              /\ e # 0
              /\ e \in DOMAIN entitySignatures'
              /\ entitySignatures'[e] = {}]_vars

(***************************************************************************)
(* The caller keeps allocating: a NewEntity call that can return is        *)
(* eventually made, however often other calls come in between.             *)
(***************************************************************************)
LiveSpec == Spec /\ SF_vars(NewEntityCall)

(***************************************************************************)
(* C11  Every destroyed ID is eventually reused: in every behaviour in     *)
(* which NewEntity keeps being called, an ID that DestroyEntity has put    *)
(* into the available pool (it is in the pool and not live) is eventually  *)
(* returned by a NewEntity call, which makes it live again.                *)
(***************************************************************************)
C11_EventualReuse ==
  ([]<><<NewEntityCall>>_vars) =>
    \A e \in 1 .. MaxLive :
      (InPool(e) /\ e \notin usedEntities) ~> (e \in usedEntities)

(***************************************************************************)
(* C11 as amended: DestroyEntity(e) on a live entity leaves e on top of    *)
(* the available pool, and a NewEntity call made in the state after it     *)
(* returns e.                                                              *)
(***************************************************************************)
C11_DestroyedIdIsNextReturned ==
  [][\A e \in usedEntities :
       (e \notin usedEntities' /\ DestroyEntityCall(e))
       => /\ Len(availableEntities') > 0
          /\ availableEntities'[Len(availableEntities')] = e
          /\ e \notin usedEntities'
          /\ NewEntityReturns' = {e}]_vars

\* a destroyed ID lies on top of other available IDs
C11_Witness ==
  /\ ~halted
  /\ Len(availableEntities) >= 2
  /\ availableEntities[Len(availableEntities)] \notin usedEntities
  /\ availableEntities[Len(availableEntities)] # availableEntities[1]
  /\ NewEntityReturns = {availableEntities[Len(availableEntities)]}

(***************************************************************************)
(* C12  Component type IDs are unique, bounded and stable: every           *)
(* registered type has one ID in [0, ECS_MAX_COMPONENTS), componentTypeToID *)
(* and componentIDToType are inverse maps (so no two types share an ID), a *)
(* type's ID never changes once assigned, and a registration made when     *)
(* ECS_MAX_COMPONENTS types are registered fails and registers nothing.    *)
(***************************************************************************)
ComponentIdsUniqueBounded ==
  /\ DOMAIN componentTypeToID = DOMAIN componentArrays
  /\ \A T \in DOMAIN componentTypeToID :
       /\ componentTypeToID[T] \in 0 .. (ECS_MAX_COMPONENTS - 1)
       /\ componentTypeToID[T] \in DOMAIN componentIDToType
       /\ componentIDToType[componentTypeToID[T]] = T
  /\ \A i \in DOMAIN componentIDToType :
       /\ componentIDToType[i] \in DOMAIN componentTypeToID
       /\ componentTypeToID[componentIDToType[i]] = i

C12_ComponentIdsUniqueBoundedStable ==
  /\ []ComponentIdsUniqueBounded
  /\ [][~halted' =>
          \A T \in DOMAIN componentTypeToID :
            /\ T \in DOMAIN componentTypeToID'
            /\ componentTypeToID'[T] = componentTypeToID[T]]_vars
  /\ [][\A T \in ComponentTypes :
          (componentCount >= ECS_MAX_COMPONENTS /\ RegisterComponent(T))
          => /\ RegisterComponentReport(T) # "none"
             /\ UNCHANGED <<componentArrays, componentTypeToID, componentIDToType,
                            componentCount>>]_vars

(***************************************************************************)
(* C13  Duplicate registration is a no-op: RegisterComponent<T> for a      *)
(* registered T and RegisterSystem<S> for a registered S are reported,     *)
(* leave the whole state unchanged, and RegisterSystem yields the existing *)
(* instance, not a new one and not a null pointer.                         *)
(***************************************************************************)
DuplicateRegistrationAnswer ==
  /\ \A T \in DOMAIN componentArrays : RegisterComponentReport(T) # "none"
  /\ \A S \in DOMAIN systems :
       /\ RegisterSystemReport(S) # "none"
       /\ RegisterSystemReturns(S) \notin {"nullptr", "new instance"}

C13_DuplicateRegistrationIsNoOp ==
  /\ []DuplicateRegistrationAnswer
  /\ [][/\ \A T \in ComponentTypes :
             (T \in DOMAIN componentArrays /\ RegisterComponent(T)) => UNCHANGED ecsState
        /\ \A S \in SystemTypes :
             (S \in DOMAIN systems /\ RegisterSystem(S)) => UNCHANGED ecsState]_vars

(***************************************************************************)
(* C14  Entity-ID exhaustion, with IDs of Uint32Bits bits: NewEntity       *)
(* reports the exhausted ID space exactly when every non-zero ID is live;  *)
(* when some non-zero ID is not live it succeeds, and the refill it makes  *)
(* does not wrap around, pushes neither 0 nor a live ID and leaves an ID   *)
(* to pop.                                                                 *)
(***************************************************************************)
AllIdsLive == \A e \in Entity \ {0} : e \in usedEntities

RefillIsSound ==
  LET batch == Batch(NE_Count) IN
  /\ (NE_Count + (BatchSize - 1)) % UINT32_MOD >= NE_Count
  /\ Len(batch) > 0
  /\ \A k \in 1 .. Len(batch) : batch[k] # 0 /\ batch[k] \notin usedEntities

C14_EntityIdExhaustion ==
  ~halted =>
    /\ AllIdsLive <=> (NewEntityReport = "error")
    /\ ~AllIdsLive =>
         /\ ~NewEntityUB
         /\ NewEntityReturns # {}
         /\ Len(availableEntities) = 0 => RefillIsSound

RECURSIVE Repeated(_, _)
Repeated(seq, n) == IF n = 0 THEN <<>> ELSE seq \o Repeated(seq, n - 1)

AcceptedMutationsAreOrdered ==
  \A T \in DOMAIN componentArrays : \A e \in usedEntities :
    IF BitOutOfRange(T) THEN TRUE
    ELSE IF CA_HasComponent(componentArrays[T], e)
    THEN CA_RemoveUB(componentArrays[T], e)
         \/ RemoveComponentSteps(T, e) = <<"store", "signature", "systems">>
    ELSE AddComponentSteps(T, e) = <<"store", "signature", "systems">>

EntityOrComponentCall ==
  \/ NewEntityCall
  \/ \E e \in EntityArgs : DestroyEntityCall(e)
  \/ \E T \in ComponentTypes, e \in EntityArgs, v \in Values : AddComponentCall(T, e, v)
  \/ \E T \in ComponentTypes, e \in EntityArgs : RemoveComponentCall(T, e)

C17_SetSystemSignatureTakesEffect ==
  [][\A S \in DOMAIN systems :
       (S \notin DOMAIN systemSignatures /\ S \in DOMAIN systems' /\ EntityOrComponentCall)
       => /\ SetSystemSignatureReport(S)' = "none"
          /\ \A sig \in Signature :
               \A e \in systems'[S].entities \ systems[S].entities :
                 e \in DOMAIN entitySignatures' /\ Matches(entitySignatures'[e], sig)]_vars

(***************************************************************************)
(* C18  Frame of a component mutation: an accepted AddComponent<T>(e, v)   *)
(* or RemoveComponent<T>(e) changes only the component array of T, bit T   *)
(* of e's signature and the membership of e in the systems' entity sets:   *)
(* the signatures of the other entities, the other bits of e's signature,  *)
(* the arrays of the other types, the membership of the other entities,    *)
(* the live set, the available pool and the rest of the state are          *)
(* unchanged.                                                              *)
(***************************************************************************)
\* the call is an accepted AddComponent or RemoveComponent of T for e
AcceptedMutation(T, e) ==
  /\ EntityExists(e)
  /\ T \in DOMAIN componentArrays
  /\ ~BitOutOfRange(T)
  /\ IF CA_HasComponent(componentArrays[T], e)
     THEN RemoveComponentCall(T, e)
     ELSE \E v \in Values : AddComponentCall(T, e, v)

\* what the claim lists as unchanged
ListedFrame(T, e) ==
  /\ DOMAIN componentArrays' = DOMAIN componentArrays
  /\ \A U \in (DOMAIN componentArrays) \ {T} : componentArrays'[U] = componentArrays[U]
  /\ DOMAIN entitySignatures' = DOMAIN entitySignatures
  /\ \A f \in (DOMAIN entitySignatures) \ {e} : entitySignatures'[f] = entitySignatures[f]
  /\ entitySignatures'[e] \ {GetComponentID(T)} = entitySignatures[e] \ {GetComponentID(T)}
  /\ DOMAIN systems' = DOMAIN systems
  /\ \A S \in DOMAIN systems : systems'[S].entities \ {e} = systems[S].entities \ {e}
  /\ UNCHANGED <<usedEntities, availableEntities>>

C18_MutationFrame ==
  [][\A T \in ComponentTypes : \A e \in usedEntities :
       AcceptedMutation(T, e)
       => /\ ListedFrame(T, e)
          /\ UNCHANGED <<entityCount, componentTypeToID, componentIDToType,
                         componentCount, systemSignatures>>]_vars

(***************************************************************************)
(* C19  Allocator bookkeeping: entityCount is the number of elements of    *)
(* usedEntities, the keys of entitySignatures are exactly usedEntities,    *)
(* the available pool holds no ID twice and no live ID, and an ID that was *)
(* issued stays either live or in the pool.                                *)
(***************************************************************************)
AllocatorBookkeeping ==
  /\ entityCount = Cardinality(usedEntities)
  /\ DOMAIN entitySignatures = usedEntities
  /\ \A j, k \in 1 .. Len(availableEntities) :
       availableEntities[j] = availableEntities[k] => j = k
  /\ \A e \in usedEntities : ~InPool(e)

C19_AllocatorBookkeeping ==
  /\ []AllocatorBookkeeping
  /\ [][~halted' => \A e \in usedEntities : e \in usedEntities' \/ InPool(e)']_vars

====
